---- MODULE Spec2Model ----
(***************************************************************************)
(* A model of src/index.js, the i18n auto injector: the locale registry    *)
(* (addLocale, getTCallExpression, writeLocaleFiles), the markup rewriter  *)
(* (transformTemplate and its four regular-expression passes), the binding *)
(* expression rewriter, the script rewriter's three visitors, and the      *)
(* directory walk with its final serialisation.                            *)
(*                                                                         *)
(* A JavaScript string is a sequence of characters.  A character is a      *)
(* one-character TLA+ string; a character outside ASCII is written by its  *)
(* code point, "U+4F60".  CodePoint gives every character its UTF-16 code  *)
(* unit, so the character classes of the regular expressions are ranges of *)
(* code units, as in the source, and Array.prototype.sort's default order  *)
(* is the lexicographic order of code units.                               *)
(***************************************************************************)
EXTENDS Integers, Sequences, FiniteSets, TLC

VARIABLES
  commonWords,  \* the Set built from common.json (line 16)
  moduleName,   \* the run's module name (line 424)
  localeMap,    \* the registry (line 31): objects keep insertion order
  emitted,      \* every (text, key) pair a rewriter put in a $t call
  dictFiles,    \* the documents written by writeLocaleFiles
  lastCall,     \* the arguments of the most recent addLocale call
  before,       \* localeMap as it was when that call was made
  calls,        \* how many addLocale calls were made directly
  pc,           \* where the run is
  tree,         \* the input directory, in the order readdir lists it
  stack,        \* walkDir's activations: the entries each has yet to visit
  cur,          \* the file being processed and how far it got
  outTree,      \* the files written to the output directory, in order
  unit,         \* the unit handed to the engine
  stages,       \* the text after each pass of the transformTemplate call
  outs,         \* the result of each engine run
  snaps         \* the registry after each engine run

vars == <<commonWords, moduleName, localeMap, emitted, dictFiles, lastCall,
          before, calls, pc, tree, stack, cur, outTree, unit, stages, outs, snaps>>

-----------------------------------------------------------------------------
(* Characters *)

Ni == "U+4F60"
Hao == "U+597D"
FullColon == "U+FF1A"
FullComma == "U+FF0C"
FullStop == "U+3002"
FullBang == "U+FF01"
Backtick == "U+0060"

CodePoint ==
  ("\n" :> 10) @@ (" " :> 32) @@ ("!" :> 33) @@ ("\"" :> 34) @@ ("$" :> 36) @@
  ("'" :> 39) @@ ("(" :> 40) @@ (")" :> 41) @@ ("," :> 44) @@ ("-" :> 45) @@
  ("." :> 46) @@ (":" :> 58) @@ ("<" :> 60) @@ ("=" :> 61) @@ (">" :> 62) @@
  ("/" :> 47) @@ ("_" :> 95) @@ (Backtick :> 96) @@ ("f" :> 102) @@ ("y" :> 121) @@
  ("a" :> 97) @@ ("b" :> 98) @@ ("c" :> 99) @@ ("d" :> 100) @@ ("e" :> 101) @@
  ("h" :> 104) @@ ("i" :> 105) @@ ("j" :> 106) @@ ("l" :> 108) @@
  ("m" :> 109) @@ ("n" :> 110) @@ ("r" :> 114) @@ ("x" :> 120) @@
  ("o" :> 111) @@ ("p" :> 112) @@ ("s" :> 115) @@ ("t" :> 116) @@
  ("v" :> 118) @@ ("{" :> 123) @@ ("}" :> 125) @@
  (FullStop :> 12290) @@ (Ni :> 20320) @@ (Hao :> 22909) @@
  (FullBang :> 65281) @@ (FullComma :> 65292) @@ (FullColon :> 65306)

ZhLo == 19968
ZhHi == 40869

\* the range \u4e00-\u9fa5 of zhReg (line 71)
IsZh(c) == CodePoint[c] >= ZhLo /\ CodePoint[c] <= ZhHi

\* \s, and the characters String.prototype.trim strips
IsSpace(c) == c \in {" ", "\n"}

\* [a-zA-Z0-9\-_:]
IsAttrNameChar(c) ==
  LET n == CodePoint[c]
  IN \/ n >= 97 /\ n <= 122
     \/ n >= 65 /\ n <= 90
     \/ n >= 48 /\ n <= 57
     \/ c \in {"-", "_", ":"}

\* the class of line 107: the range of IsZh and eight punctuation marks
IsZhOrPunct(c) ==
  IsZh(c) \/ c \in {FullColon, ":", FullComma, ",", FullStop, FullBang, "!"}

IsQuote(c) == c \in {"'", "\""}
IsBrace(c) == c \in {"{", "}"}
NotBrace(c) == ~IsBrace(c)
NotLt(c) == c # "<"

-----------------------------------------------------------------------------
(* Strings *)

Min(S) == CHOOSE x \in S : \A y \in S : x <= y

\* e with x standing for the value of v
Bind(v, F(_)) == CHOOSE y \in {F(x) : x \in {v}} : TRUE

\* zhReg.test(s)
HasZh(s) == \E i \in 1..Len(s) : IsZh(s[i])

\* the last index of the run of P-characters that starts at i (i - 1: none)
RunEnd(s, i, P(_)) ==
  LET stop == {j \in i..Len(s) : ~P(s[j])}
  IN IF stop = {} THEN Len(s) ELSE Min(stop) - 1

\* the first index >= i whose character satisfies P (0: none)
FindFrom(s, i, P(_)) ==
  LET hit == {j \in i..Len(s) : P(s[j])}
  IN IF hit = {} THEN 0 ELSE Min(hit)

StartsWithAt(s, pat, i) ==
  /\ i >= 1
  /\ i + Len(pat) - 1 <= Len(s)
  /\ \A k \in 1..Len(pat) : s[i + k - 1] = pat[k]

\* s.startsWith(pat)
StartsWith(s, pat) == StartsWithAt(s, pat, 1)

\* s.includes(pat)
Includes(s, pat) == \E i \in 1..Len(s) : StartsWithAt(s, pat, i)

\* s.trim()
Trim(s) ==
  LET keep == {i \in 1..Len(s) : ~IsSpace(s[i])}
  IN IF keep = {} THEN <<>>
     ELSE SubSeq(s, Min(keep), CHOOSE i \in keep : \A j \in keep : j <= i)

RECURSIVE Concat(_)
Concat(ss) == IF ss = <<>> THEN <<>> ELSE Head(ss) \o Concat(Tail(ss))

\* s.replace(/[P]+/g, F): every maximal run of P-characters becomes F(run)
ReplaceRuns(s, P(_), F(_)) ==
  LET R[i \in 1..(Len(s) + 1)] ==
        LET b == FindFrom(s, i, P)
            e == RunEnd(s, b, P)
        IN IF b = 0 THEN SubSeq(s, i, Len(s))
           ELSE SubSeq(s, i, b - 1) \o F(SubSeq(s, b, e)) \o R[e + 1]
  IN R[1]

\* the maximal runs of P-characters of s, in order: the arguments F is called with
Runs(s, P(_)) ==
  LET R[i \in 1..(Len(s) + 1)] ==
        LET b == FindFrom(s, i, P)
            e == RunEnd(s, b, P)
        IN IF b = 0 THEN <<>> ELSE <<SubSeq(s, b, e)>> \o R[e + 1]
  IN R[1]

\* s.split(/([P]+)/).filter(Boolean): the alternating runs of s
SplitRuns(s, P(_)) ==
  LET NotP(c) == ~P(c)
      R[i \in 1..(Len(s) + 1)] ==
        IF i > Len(s) THEN <<>>
        ELSE LET e == IF P(s[i]) THEN RunEnd(s, i, P) ELSE RunEnd(s, i, NotP)
             IN <<SubSeq(s, i, e)>> \o R[e + 1]
  IN R[1]

\* a < b as JavaScript compares strings: by UTF-16 code units
StrLess(a, b) ==
  \E i \in 1..(Len(b)) :
    /\ \A k \in 1..(i - 1) : k <= Len(a) /\ a[k] = b[k]
    /\ \/ i = Len(a) + 1
       \/ i <= Len(a) /\ CodePoint[a[i]] < CodePoint[b[i]]

\* the strings over alphabet A of length at most n
RECURSIVE StringsUpTo(_, _)
StringsUpTo(A, n) ==
  IF n = 0 THEN {<<>>}
  ELSE LET shorter == StringsUpTo(A, n - 1)
       IN shorter \cup {Append(s, c) : s \in {q \in shorter : Len(q) = n - 1}, c \in A}

-----------------------------------------------------------------------------
(* The registry *)

ModuleChars ==
  ("test" :> <<"t", "e", "s", "t">>) @@ ("home" :> <<"h", "o", "m", "e">>) @@
  ("common" :> <<"c", "o", "m", "m", "o", "n">>)

\* An object is the sequence of its own properties in insertion order; no key
\* of this program is an array index, so insertion order is enumeration order.
ObjIndex(obj, k) ==
  LET hit == {i \in 1..Len(obj) : obj[i].key = k}
  IN IF hit = {} THEN 0 ELSE Min(hit)

ObjHas(obj, k) == ObjIndex(obj, k) # 0

\* obj[k] = v
ObjSet(obj, k, v) ==
  IF ObjHas(obj, k) THEN [obj EXCEPT ![ObjIndex(obj, k)].value = v]
  ELSE Append(obj, [key |-> k, value |-> v])

\* !obj[k]: the property is missing, or holds the empty string
ObjFalsy(obj, k) == ~ObjHas(obj, k) \/ obj[ObjIndex(obj, k)].value = <<>>

\* Object.keys(obj)
ObjKeys(obj) == [i \in 1..Len(obj) |-> obj[i].key]

\* a registry that files every text under the namespace of the file
TargetModuleOfFile(cw, mName, text) == mName

\* commonWords.has(text) ? "common" : moduleName
TargetModule(cw, mName, text) == IF text \in cw THEN "common" ELSE mName

\* an insert that starts the namespace afresh
addLocaleReplacing(lm, cw, mName, text) ==
  ObjSet(lm, TargetModule(cw, mName, text), <<[key |-> text, value |-> text]>>)

\* an insert that stores the translation key and overwrites
addLocaleStoresKey(lm, cw, mName, text) ==
  LET targetModule == TargetModule(cw, mName, text)
      lm1 == IF ObjHas(lm, targetModule) THEN lm
             ELSE ObjSet(lm, targetModule, <<>>)
      i == ObjIndex(lm1, targetModule)
  IN [lm1 EXCEPT ![i].value =
        ObjSet(@, text, ModuleChars[targetModule] \o <<".">> \o text)]

addLocale(lm, cw, mName, text) ==
  LET targetModule == TargetModule(cw, mName, text)
      lm1 == IF ObjHas(lm, targetModule) THEN lm
             ELSE ObjSet(lm, targetModule, <<>>)
      i == ObjIndex(lm1, targetModule)
  IN IF ObjFalsy(lm1[i].value, text)
     THEN [lm1 EXCEPT ![i].value = ObjSet(@, text, text)]
     ELSE lm1

\* `${targetModule}.${text}`, the argument getTCallExpression gives $t
getTCallExpression(cw, mName, text) ==
  ModuleChars[TargetModule(cw, mName, text)] \o <<".">> \o text

\* commonWords.has(text) ? `common.${text}` : `${moduleName}.${text}`
InlineKey(cw, mName, text) ==
  IF text \in cw THEN ModuleChars["common"] \o <<".">> \o text
  ELSE ModuleChars[mName] \o <<".">> \o text

\* the registry after the addLocale calls of a log, made in order
RECURSIVE AddAll(_, _, _, _)
AddAll(lm, cw, mName, log) ==
  IF log = <<>> THEN lm
  ELSE AddAll(addLocale(lm, cw, mName, Head(log).text), cw, mName, Tail(log))

\* the (namespace, text) pairs the registry holds
Pairs(lm) ==
  UNION {{<<lm[i].key, lm[i].value[j].key>> : j \in 1..Len(lm[i].value)} :
         i \in 1..Len(lm)}

\* keys left in insertion order
SortKeysUnsorted(ks) == ks

\* keys.sort(): the default order, ascending by UTF-16 code units
RECURSIVE SortKeys(_)
SortKeys(ks) ==
  IF ks = <<>> THEN <<>>
  ELSE LET sorted == SortKeys(SubSeq(ks, 1, Len(ks) - 1))
           k == ks[Len(ks)]
           pos == Cardinality({i \in 1..Len(sorted) : ~StrLess(k, sorted[i])})
       IN SubSeq(sorted, 1, pos) \o <<k>> \o SubSeq(sorted, pos + 1, Len(sorted))

\* keys.reduce((acc, key) => { acc[key] = map[key]; return acc }, {})
RECURSIVE ReduceInto(_, _, _)
ReduceInto(acc, keys, map) ==
  IF keys = <<>> THEN acc
  ELSE ReduceInto(ObjSet(acc, Head(keys), map[ObjIndex(map, Head(keys))].value),
                  Tail(keys), map)

\* one document per module, { [moduleName]: sorted }, at <moduleName>.json
writeLocaleFiles(lm) ==
  [i \in 1..Len(lm) |->
     [path |-> ModuleChars[lm[i].key] \o <<".", "j", "s", "o", "n">>,
      root |-> lm[i].key,
      table |-> ReduceInto(<<>>, SortKeys(ObjKeys(lm[i].value)), lm[i].value)]]

-----------------------------------------------------------------------------
(* Results of a rewriter: the code it returns and, in order, the (text, key)  *)
(* pairs of its addLocale calls and of the $t calls it emitted.               *)

Result(code, log) == [code |-> code, log |-> log]
Join(a, b) == [code |-> a.code \o b.code, log |-> a.log \o b.log]
Entry(text, key) == [text |-> text, key |-> key]

TOpen == <<"$", "t", "(", "'">>
TClose == <<"'", ")">>

-----------------------------------------------------------------------------
(* transformBindingExpression (lines 73-127).  babelParser.parse is        *)
(* modelled on the expressions the attribute values of this model can      *)
(* form: identifiers, single-quoted strings, calls and the operators >,    *)
(* >> and >>>; every other character outside a string is a syntax error.   *)

IsIdentChar(c) ==
  LET n == CodePoint[c]
  IN \/ n >= 97 /\ n <= 122
     \/ c \in {"$", "_"}
     \/ IsZh(c)

IsGt(c) == c = ">"
IsSq(c) == c = "'"
IsDq(c) == c = "\""
IsLt(c) == c = "<"

BadToken == [t |-> "bad"]

\* the tokens of an expression; a BadToken where no token can start
Tokenize(s) ==
  LET T[i \in 1..(Len(s) + 1)] ==
        IF i > Len(s) THEN <<>>
        ELSE IF IsSpace(s[i]) THEN T[RunEnd(s, i, IsSpace) + 1]
        ELSE IF s[i] = "'"
             THEN LET j == FindFrom(s, i + 1, IsSq)
                  IN IF j = 0 THEN <<BadToken>>
                     ELSE <<[t |-> "str", v |-> SubSeq(s, i + 1, j - 1)]>> \o T[j + 1]
        ELSE IF IsIdentChar(s[i])
             THEN LET e == RunEnd(s, i, IsIdentChar)
                  IN <<[t |-> "id", v |-> SubSeq(s, i, e)]>> \o T[e + 1]
        ELSE IF s[i] = ">"
             THEN LET e == RunEnd(s, i, IsGt)
                  IN IF e - i + 1 > 3 THEN <<BadToken>>
                     ELSE <<[t |-> "op", v |-> SubSeq(s, i, e)]>> \o T[e + 1]
        ELSE IF s[i] = "(" THEN <<[t |-> "lp"]>> \o T[i + 1]
        ELSE IF s[i] = ")" THEN <<[t |-> "rp"]>> \o T[i + 1]
        ELSE <<BadToken>>
  IN T[1]

TokIs(ts, i, kind) == i >= 1 /\ i <= Len(ts) /\ ts[i].t = kind

\* Expression := Operand (op Operand)*;  Operand := (str | id) ( "(" [Expression] ")" )*
\* Each gives the index after what it parsed from i, or 0.
RECURSIVE ParseExpression(_, _), ParseSuffixes(_, _)
ParseSuffixes(ts, j) ==
  IF ~TokIs(ts, j, "lp") THEN j
  ELSE IF TokIs(ts, j + 1, "rp") THEN ParseSuffixes(ts, j + 2)
  ELSE LET e == ParseExpression(ts, j + 1)
       IN IF e # 0 /\ TokIs(ts, e, "rp") THEN ParseSuffixes(ts, e + 1) ELSE 0

ParseExpression(ts, i) ==
  IF ~(TokIs(ts, i, "str") \/ TokIs(ts, i, "id")) THEN 0
  ELSE LET o == ParseSuffixes(ts, i + 1)
       IN IF o = 0 THEN 0
          ELSE IF TokIs(ts, o, "op") THEN ParseExpression(ts, o + 1)
          ELSE o

\* `const __temp = ${expression};` parses
Parses(ts) ==
  /\ \A i \in 1..Len(ts) : ts[i] # BadToken
  /\ ParseExpression(ts, 1) = Len(ts) + 1

\* the StringLiteral at token k is the whole argument of a call of $t
IsInsideTCall(ts, k) ==
  /\ TokIs(ts, k - 1, "lp")
  /\ TokIs(ts, k - 2, "id") /\ ts[k - 2].v = <<"$", "t">>
  /\ TokIs(ts, k + 1, "rp")

\* the StringLiteral visitor of lines 82-92 applies to token k
BindingWraps(ts, k) ==
  TokIs(ts, k, "str") /\ ~IsInsideTCall(ts, k) /\ HasZh(ts[k].v)

\* generate.default(expr, { jsescOption: { quotes: "single", minimal: true } })
\* after the traversal: a wrapped literal prints as its $t call
GenerateBinding(ts, cw, mName) ==
  LET G[k \in 1..(Len(ts) + 1)] ==
        IF k > Len(ts) THEN <<>>
        ELSE (CASE ts[k].t = "str" ->
                     IF BindingWraps(ts, k)
                     THEN TOpen \o getTCallExpression(cw, mName, Trim(ts[k].v)) \o TClose
                     ELSE <<"'">> \o ts[k].v \o <<"'">>
                [] ts[k].t = "id" -> ts[k].v
                [] ts[k].t = "op" -> <<" ">> \o ts[k].v \o <<" ">>
                [] ts[k].t = "lp" -> <<"(">>
                [] ts[k].t = "rp" -> <<")">>) \o G[k + 1]
  IN G[1]

BindingAstLog(ts, cw, mName) ==
  LET L[k \in 1..(Len(ts) + 1)] ==
        IF k > Len(ts) THEN <<>>
        ELSE (IF BindingWraps(ts, k)
              THEN <<Entry(Trim(ts[k].v), getTCallExpression(cw, mName, Trim(ts[k].v)))>>
              ELSE <<>>) \o L[k + 1]
  IN L[1]

\* the replace callback of lines 108-116
SpliceRun(cw, mName, zhText) ==
  IF Trim(zhText) = <<>> THEN zhText
  ELSE <<"$", "{">> \o TOpen \o InlineKey(cw, mName, Trim(zhText)) \o TClose \o <<"}">>

SpliceLog(cw, mName, code) ==
  LET runs == Runs(code, IsZhOrPunct)
      kept == SelectSeq(runs, LAMBDA r : Trim(r) # <<>>)
  IN [k \in 1..Len(kept) |-> Entry(Trim(kept[k]), InlineKey(cw, mName, Trim(kept[k])))]

transformBindingExpression(expression, cw, mName) ==
  LET ts == Tokenize(expression)
      code == GenerateBinding(ts, cw, mName)
      Splice(r) == SpliceRun(cw, mName, r)
  IN IF ~Parses(ts) THEN Result(expression, <<>>)
     ELSE IF Includes(code, <<"$", "t", "(">>)
          THEN Result(code, BindingAstLog(ts, cw, mName))
          ELSE Result(ReplaceRuns(code, IsZhOrPunct, Splice),
                      BindingAstLog(ts, cw, mName) \o SpliceLog(cw, mName, code))

-----------------------------------------------------------------------------
(* transformTemplate (lines 129-240): four replace passes *)

\* /\$t\(['"][^'"]+['"]\)/.test(s)
HasTCall(s) ==
  \E i \in 1..Len(s) :
    /\ StartsWithAt(s, <<"$", "t", "(">>, i)
    /\ i + 3 <= Len(s) /\ IsQuote(s[i + 3])
    /\ LET r == FindFrom(s, i + 4, IsQuote)
       IN r > i + 4 /\ StartsWithAt(s, <<")">>, r + 1)

\* where /(\s)([a-zA-Z0-9\-_:]+)="([^"]*[\u4e00-\u9fa5]+[^"]*)"/ matches at i:
\* the name ends at n, the value is closed by the quote at q
AttrMatch(s, i) ==
  LET n == RunEnd(s, i + 1, IsAttrNameChar)
      q == FindFrom(s, n + 3, IsDq)
  IN [ok |-> /\ IsSpace(s[i])
             /\ n >= i + 1
             /\ StartsWithAt(s, <<"=", "\"">>, n + 1)
             /\ q # 0
             /\ HasZh(SubSeq(s, n + 3, q - 1)),
      n |-> n, q |-> q]

\* the callback of lines 133-152
AttrReplace(match, prefixSpace, attrName, attrValue, cw, mName) ==
  LET text == Trim(attrValue)
      isDynamic == StartsWith(attrName, <<":">>)
                     \/ StartsWith(attrName, <<"v", "-", "b", "i", "n", "d">>)
      newExpr == transformBindingExpression(attrValue, cw, mName)
  IN IF text = <<>> THEN Result(match, <<>>)
     ELSE IF isDynamic
          THEN IF HasTCall(attrValue) THEN Result(match, <<>>)
               ELSE Result(prefixSpace \o attrName \o <<"=", "\"">> \o newExpr.code \o <<"\"">>,
                           newExpr.log)
          ELSE Result(prefixSpace \o <<":">> \o attrName \o <<"=", "\"">> \o TOpen
                        \o InlineKey(cw, mName, text) \o TClose \o <<"\"">>,
                      <<Entry(text, InlineKey(cw, mName, text))>>)

AttributePass(s, cw, mName) ==
  LET R[i \in 1..(Len(s) + 1)] ==
        LET at == {p \in i..Len(s) : AttrMatch(s, p).ok}
            b == Min(at)
            m == AttrMatch(s, b)
        IN IF at = {} THEN Result(SubSeq(s, i, Len(s)), <<>>)
           ELSE Join(Result(SubSeq(s, i, b - 1), <<>>),
                     Join(AttrReplace(SubSeq(s, b, m.q), <<s[b]>>, SubSeq(s, b + 1, m.n),
                                      SubSeq(s, m.n + 3, m.q - 1), cw, mName),
                          R[m.q + 1]))
  IN R[1]

IsLineTerminator(c) == c = "\n"

\* /<!--.*-->/.test(raw)
HasComment(raw) ==
  \E i, j \in 1..Len(raw) :
    /\ StartsWithAt(raw, <<"<", "!", "-", "-">>, i)
    /\ j >= i + 4
    /\ StartsWithAt(raw, <<"-", "-", ">">>, j)
    /\ \A k \in (i + 4)..(j - 1) : ~IsLineTerminator(raw[k])

\* /^\s*$/.test(raw)
IsBlank(raw) == \A i \in 1..Len(raw) : IsSpace(raw[i])

\* where /{{.*?}}/ matches at p: the index of its closing braces, or 0
InterpClose(raw, p) ==
  IF ~StartsWithAt(raw, <<"{", "{">>, p) THEN 0
  ELSE LET ends == {k \in (p + 2)..Len(raw) :
                      /\ StartsWithAt(raw, <<"}", "}">>, k)
                      /\ \A x \in (p + 2)..(k - 1) : ~IsLineTerminator(raw[x])}
       IN IF ends = {} THEN 0 ELSE Min(ends)

\* raw.split(/({{.*?}})/g).filter(Boolean)
SplitInterpolations(raw) ==
  LET R[i \in 1..(Len(raw) + 1)] ==
        IF i > Len(raw) THEN <<>>
        ELSE LET starts == {p \in i..Len(raw) : InterpClose(raw, p) # 0}
             IN IF starts = {} THEN <<SubSeq(raw, i, Len(raw))>>
                ELSE LET p == Min(starts)
                         k == InterpClose(raw, p)
                     IN (IF p > i THEN <<SubSeq(raw, i, p - 1)>> ELSE <<>>)
                          \o <<SubSeq(raw, p, k + 1)>> \o R[k + 2]
  IN R[1]

\* the callback of lines 176-182
BodyCall(cw, mName, zh) ==
  <<"{", "{", " ">> \o TOpen \o InlineKey(cw, mName, zh) \o TClose \o <<" ", "}", "}">>

\* the map callback of lines 172-183
TagBodyPart(part, cw, mName) ==
  LET Call(zh) == BodyCall(cw, mName, zh)
      runs == Runs(part, IsZh)
  IN IF StartsWith(part, <<"{", "{">>) THEN Result(part, <<>>)
     ELSE Result(ReplaceRuns(part, IsZh, Call),
                 [k \in 1..Len(runs) |-> Entry(runs[k], InlineKey(cw, mName, runs[k]))])

RECURSIVE JoinAll(_)
JoinAll(rs) == IF rs = <<>> THEN Result(<<>>, <<>>) ELSE Join(Head(rs), JoinAll(Tail(rs)))

\* the callback of lines 155-187, on the text inner of a match >inner<
TagBodyReplace(raw, cw, mName) ==
  IF HasComment(raw) \/ ~HasZh(raw) \/ IsBlank(raw) \/ Includes(raw, <<"$", "t", "(">>)
  THEN Result(raw, <<>>)
  ELSE LET parts == SplitInterpolations(raw)
       IN JoinAll([k \in 1..Len(parts) |-> TagBodyPart(parts[k], cw, mName)])

\* template.replace(/>([^<]*)</g, ...)
TagBodyPass(s, cw, mName) ==
  LET R[i \in 1..(Len(s) + 1)] ==
        LET b == FindFrom(s, i, IsGt)
            j == FindFrom(s, b + 1, IsLt)
            r == TagBodyReplace(SubSeq(s, b + 1, j - 1), cw, mName)
        IN IF b = 0 \/ j = 0 THEN Result(SubSeq(s, i, Len(s)), <<>>)
           ELSE Join(Result(SubSeq(s, i, b) \o r.code \o <<"<">>, r.log), R[j + 1])
  IN R[1]

\* expression.replace(/(['"])([\u4e00-\u9fa5][^'"]*)\1/g, ...) of lines 191-200
QuotedMatch(x, p) ==
  LET r == FindFrom(x, p + 2, IsQuote)
  IN [ok |-> /\ IsQuote(x[p])
             /\ p + 1 <= Len(x) /\ IsZh(x[p + 1])
             /\ r # 0 /\ x[r] = x[p],
      r |-> r]

QuotedReplace(x, cw, mName) ==
  LET R[i \in 1..(Len(x) + 1)] ==
        LET at == {p \in i..Len(x) : QuotedMatch(x, p).ok}
            b == Min(at)
            r == QuotedMatch(x, b).r
            zhText == SubSeq(x, b + 1, r - 1)
        IN IF at = {} THEN Result(SubSeq(x, i, Len(x)), <<>>)
           ELSE Join(Result(SubSeq(x, i, b - 1) \o TOpen \o InlineKey(cw, mName, zhText)
                              \o TClose,
                            <<Entry(zhText, InlineKey(cw, mName, zhText))>>),
                     R[r + 1])
  IN R[1]

\* template.replace(/{{([^{}]*)}}/g, ...) of lines 190-202
InterpMatch(s, p) ==
  /\ StartsWithAt(s, <<"{", "{">>, p)
  /\ StartsWithAt(s, <<"}", "}">>, RunEnd(s, p + 2, NotBrace) + 1)

InterpolationPass(s, cw, mName) ==
  LET R[i \in 1..(Len(s) + 1)] ==
        LET at == {p \in i..Len(s) : InterpMatch(s, p)}
            b == Min(at)
            e == RunEnd(s, b + 2, NotBrace)
            r == QuotedReplace(SubSeq(s, b + 2, e), cw, mName)
        IN IF at = {} THEN Result(SubSeq(s, i, Len(s)), <<>>)
           ELSE Join(Result(SubSeq(s, i, b + 1) \o r.code \o <<"}", "}">>, r.log),
                     R[e + 3])
  IN R[1]

\* the passes in turn, each on the code the one before returned
transformTemplate(template, cw, mName) ==
  Bind(AttributePass(template, cw, mName), LAMBDA p1 :
    Bind(TagBodyPass(p1.code, cw, mName), LAMBDA p2 :
      Bind(InterpolationPass(p2.code, cw, mName), LAMBDA p3 :
        Bind(TagBodyPass(p3.code, cw, mName), LAMBDA p4 :
          Result(p4.code, p1.log \o p2.log \o p3.log \o p4.log)))))

-----------------------------------------------------------------------------
(* transformScript (lines 242-353).  A script is the sequence of the nodes  *)
(* babelParser.parse found in it.                                           *)

StringLiteral(value) == [type |-> "StringLiteral", value |-> value]
Identifier(name) == [type |-> "Identifier", name |-> name]
CallExpression(callee, arg) == [type |-> "CallExpression", callee |-> callee, arg |-> arg]
TemplateElement(raw, tail) == [raw |-> raw, tail |-> tail]
TemplateLiteral(quasis, expressions, transformed) ==
  [type |-> "TemplateLiteral", quasis |-> quasis, expressions |-> expressions,
   i18nTransformed |-> transformed]
JSXText(value) == [type |-> "JSXText", value |-> value]
JSXExpressionContainer(expression) ==
  [type |-> "JSXExpressionContainer", expression |-> expression]

\* t.callExpression(t.identifier("$t"), [t.stringLiteral(key)])
TCall(cw, mName, text) ==
  CallExpression(<<"$", "t">>, StringLiteral(getTCallExpression(cw, mName, text)))

LogOf(cw, mName, text) == <<Entry(text, getTCallExpression(cw, mName, text))>>

\* flushPendingQuasi (lines 273-281)
FlushPendingQuasi(st) ==
  IF st.pendingQuasi # <<>>
  THEN [st EXCEPT !.newQuasis = Append(@, TemplateElement(st.pendingQuasi, FALSE)),
                  !.pendingQuasi = <<>>]
  ELSE st

\* the forEach callback of lines 290-299
SegmentStep(st, segment, cw, mName) ==
  IF HasZh(segment)
  THEN LET f == FlushPendingQuasi(st)
       IN [f EXCEPT !.log = @ \o LogOf(cw, mName, segment),
                    !.newExpressions = Append(@, TCall(cw, mName, segment)),
                    !.newQuasis = Append(@, TemplateElement(<<>>, FALSE))]
  ELSE [st EXCEPT !.pendingQuasi = @ \o segment]

RECURSIVE SegmentsLoop(_, _, _, _)
SegmentsLoop(st, segments, cw, mName) ==
  IF segments = <<>> THEN st
  ELSE SegmentsLoop(SegmentStep(st, Head(segments), cw, mName), Tail(segments), cw, mName)

\* the body of the for loop of lines 283-308, for quasi i
QuasiStep(st, node, i, cw, mName) ==
  LET flushed ==
        FlushPendingQuasi(SegmentsLoop(st, SplitRuns(node.quasis[i].raw, IsZh), cw, mName))
  IN IF i <= Len(node.expressions)
     THEN [flushed EXCEPT
             !.newExpressions = Append(@, node.expressions[i]),
             !.newQuasis = Append(@, TemplateElement(<<>>, FALSE))]
     ELSE flushed

RECURSIVE QuasisLoop(_, _, _, _, _)
QuasisLoop(st, node, i, cw, mName) ==
  IF i > Len(node.quasis) THEN st
  ELSE QuasisLoop(QuasiStep(st, node, i, cw, mName), node, i + 1, cw, mName)

\* lines 311-317: the last quasi becomes the tail
MarkTail(qs) ==
  IF Len(qs) > 0 THEN [qs EXCEPT ![Len(qs)] = TemplateElement(qs[Len(qs)].raw, TRUE)]
  ELSE qs

\* lines 320-322
RECURSIVE PadQuasis(_, _)
PadQuasis(qs, nExpressions) ==
  IF Len(qs) <= nExpressions
  THEN PadQuasis(Append(qs, TemplateElement(<<>>, FALSE)), nExpressions)
  ELSE qs

\* the arrays the TemplateLiteral visitor hands to t.templateLiteral (line 324)
RewriteTemplateLiteral(node, cw, mName) ==
  LET st == QuasisLoop([newQuasis |-> <<>>, newExpressions |-> <<>>,
                        pendingQuasi |-> <<>>, log |-> <<>>], node, 1, cw, mName)
  IN [quasis |-> PadQuasis(MarkTail(st.newQuasis), Len(st.newExpressions)),
      expressions |-> st.newExpressions,
      log |-> st.log]

\* the visitor's guards of lines 263-267
TemplateLiteralApplies(node) ==
  /\ ~node.i18nTransformed
  /\ \E k \in 1..Len(node.quasis) : HasZh(node.quasis[k].raw)

\* t.templateLiteral validates its fields: the number of quasis must be the
\* number of expressions plus one, or the builder throws a TypeError
BuilderAccepts(quasis, expressions) == Len(quasis) = Len(expressions) + 1

\* the JSXText visitor (lines 329-349): the nodes that replace the text
RewriteJSXText(raw, cw, mName) ==
  LET parts == SplitRuns(raw, IsZh)
  IN [ok |-> TRUE,
      nodes |-> [k \in 1..Len(parts) |->
                   IF HasZh(parts[k])
                   THEN JSXExpressionContainer(TCall(cw, mName, Trim(parts[k])))
                   ELSE JSXText(parts[k])],
      log |-> Concat([k \in 1..Len(parts) |->
                   IF HasZh(parts[k]) THEN LogOf(cw, mName, Trim(parts[k])) ELSE <<>>])]

VisitResult(ok, nodes, log) == [ok |-> ok, nodes |-> nodes, log |-> log]

\* the traversal goes on after a node unless a visitor threw
ThenVisit(done, next) ==
  IF ~done.ok THEN done
  ELSE VisitResult(next.ok, done.nodes \o next.nodes, done.log \o next.log)

\* a node whose child has been traversed
WithArgument(node, a) ==
  VisitResult(a.ok, <<[node EXCEPT !.arg = a.nodes[1]]>>, a.log)
WithExpression(node, a) ==
  VisitResult(a.ok, <<[node EXCEPT !.expression = a.nodes[1]]>>, a.log)
WithExpressions(node, inner) ==
  VisitResult(inner.ok, <<[node EXCEPT !.expressions = inner.nodes]>>, inner.log)

\* lines 324-326: the new literal, traversed in its turn
ReplaceLiteral(r, inner) ==
  VisitResult(inner.ok, <<TemplateLiteral(r.quasis, inner.nodes, TRUE)>>,
              r.log \o inner.log)

\* traverse.default(ast, visitors) on one node; a replacement is visited again
RECURSIVE Visit(_, _, _), VisitAll(_, _, _), VisitRewritten(_, _, _)
Visit(node, cw, mName) ==
  CASE node.type = "StringLiteral" ->
         IF HasZh(node.value)
         THEN VisitResult(TRUE, <<TCall(cw, mName, Trim(node.value))>>,
                          LogOf(cw, mName, Trim(node.value)))
         ELSE VisitResult(TRUE, <<node>>, <<>>)
    [] node.type = "CallExpression" ->
         IF node.arg.type = "StringLiteral" /\ node.callee = <<"$", "t">>
         THEN VisitResult(TRUE, <<node>>, <<>>)
         ELSE WithArgument(node, Visit(node.arg, cw, mName))
    [] node.type = "TemplateLiteral" ->
         IF TemplateLiteralApplies(node)
         THEN VisitRewritten(RewriteTemplateLiteral(node, cw, mName), cw, mName)
         ELSE WithExpressions(node, VisitAll(node.expressions, cw, mName))
    [] node.type = "JSXText" ->
         IF HasZh(node.value)
         THEN RewriteJSXText(node.value, cw, mName)
         ELSE VisitResult(TRUE, <<node>>, <<>>)
    [] node.type = "JSXExpressionContainer" ->
         WithExpression(node, Visit(node.expression, cw, mName))
    [] OTHER -> VisitResult(TRUE, <<node>>, <<>>)

\* line 324 throws, or the new node replaces the old one and is traversed
VisitRewritten(r, cw, mName) ==
  IF ~BuilderAccepts(r.quasis, r.expressions)
  THEN VisitResult(FALSE, <<>>, r.log)
  ELSE ReplaceLiteral(r, VisitAll(r.expressions, cw, mName))

VisitAll(nodes, cw, mName) ==
  IF nodes = <<>> THEN VisitResult(TRUE, <<>>, <<>>)
  ELSE ThenVisit(Visit(Head(nodes), cw, mName), VisitAll(Tail(nodes), cw, mName))

\* A script that does not parse is the node SyntaxError: babelParser.parse throws.
SyntaxError == [type |-> "SyntaxError"]

transformScript(script, cw, mName) ==
  IF \E k \in 1..Len(script) : script[k] = SyntaxError
  THEN VisitResult(FALSE, <<>>, <<>>)
  ELSE VisitAll(script, cw, mName)

\* babelParser.parse(generate(ast).code): the tree read back from the code
\* generated for it.  The __i18nTransformed mark is a property of the node
\* object and is not printed, so the tree read back does not carry it; the
\* parser marks the last quasi of a literal as its tail.
RECURSIVE Reparse(_), ReparseAll(_)
Reparse(node) ==
  CASE node.type = "TemplateLiteral" ->
         TemplateLiteral([k \in 1..Len(node.quasis) |->
                            TemplateElement(node.quasis[k].raw, k = Len(node.quasis))],
                         ReparseAll(node.expressions), FALSE)
    [] node.type = "CallExpression" -> [node EXCEPT !.arg = Reparse(node.arg)]
    [] node.type = "JSXExpressionContainer" ->
         [node EXCEPT !.expression = Reparse(node.expression)]
    [] OTHER -> node

ReparseAll(nodes) == [k \in 1..Len(nodes) |-> Reparse(nodes[k])]

\* generate.default(ast).code (line 352): strings print in double quotes, a
\* template literal between backticks with each expression in ${ }, a JSX
\* expression container between braces.  The nodes of a script print in
\* source order; the syntax around them is the same before and after.
RECURSIVE GenerateNode(_), GenerateQuasis(_, _, _)
GenerateNode(node) ==
  CASE node.type = "StringLiteral" -> <<"\"">> \o node.value \o <<"\"">>
    [] node.type = "Identifier" -> node.name
    [] node.type = "CallExpression" ->
         node.callee \o <<"(">> \o GenerateNode(node.arg) \o <<")">>
    [] node.type = "TemplateLiteral" ->
         <<Backtick>> \o GenerateQuasis(node.quasis, node.expressions, 1) \o <<Backtick>>
    [] node.type = "JSXText" -> node.value
    [] node.type = "JSXExpressionContainer" ->
         <<"{">> \o GenerateNode(node.expression) \o <<"}">>
    [] OTHER -> <<>>

GenerateQuasis(quasis, expressions, i) ==
  IF i > Len(quasis) THEN <<>>
  ELSE quasis[i].raw
         \o (IF i <= Len(expressions)
             THEN <<"$", "{">> \o GenerateNode(expressions[i]) \o <<"}">>
             ELSE <<>>)
         \o GenerateQuasis(quasis, expressions, i + 1)

GenerateScript(nodes) == Concat([k \in 1..Len(nodes) |-> GenerateNode(nodes[k])])

-----------------------------------------------------------------------------
(* Bounds and input sets *)

MaxCalls == 3
MaxEntries == 3

ModuleNames == {"test", "home"}
CommonWordSets == {{}, {<<Ni>>}, {<<Ni>>, <<Ni, Hao>>}}

\* texts a rewriter can hand to addLocale
RegTexts == {<<Ni>>, <<Hao>>, <<Ni, Hao>>, <<Hao, Ni>>, <<":">>}

NoCall == [text |-> <<>>]
NoFile ==
  [step |-> "none", op |-> "none", path |-> <<>>,
   entry |-> [name |-> <<>>, kind |-> "other", template |-> <<>>, script |-> <<>>,
              entries |-> <<>>],
   content |-> <<>>]
NoUnit == [kind |-> "none"]

-----------------------------------------------------------------------------
(* The registry on its own: addLocale called with any texts in any order,   *)
(* then writeLocaleFiles.                                                   *)

RegInit ==
  /\ commonWords \in CommonWordSets
  /\ moduleName \in ModuleNames
  /\ localeMap = <<>>
  /\ emitted = {}
  /\ dictFiles = <<>>
  /\ lastCall = NoCall
  /\ before = <<>>
  /\ calls = 0
  /\ pc = "extracting"
  /\ tree = <<>>
  /\ stack = <<>>
  /\ cur = NoFile
  /\ outTree = <<>>
  /\ unit = NoUnit
  /\ stages = <<>>
  /\ outs = <<>>
  /\ snaps = <<>>

AddLocaleCall(text) ==
  /\ pc = "extracting"
  /\ calls < MaxCalls
  /\ localeMap' = addLocale(localeMap, commonWords, moduleName, text)
  /\ lastCall' = [text |-> text]
  /\ before' = localeMap
  /\ calls' = calls + 1
  /\ UNCHANGED <<commonWords, moduleName, emitted, dictFiles, pc, tree, stack,
                 cur, outTree, unit, stages, outs, snaps>>

\* the .then callback of the entry point (lines 427-430)
WriteLocaleFiles ==
  /\ pc \in {"extracting", "resolved"}
  /\ dictFiles' = writeLocaleFiles(localeMap)
  /\ pc' = "written"
  /\ UNCHANGED <<commonWords, moduleName, localeMap, emitted, lastCall, before,
                 calls, tree, stack, cur, outTree, unit, stages, outs, snaps>>

RegNext ==
  \/ \E text \in RegTexts : AddLocaleCall(text)
  \/ WriteLocaleFiles

SpecRegistry == RegInit /\ [][RegNext]_vars

-----------------------------------------------------------------------------
(* The rewriting engine on one unit: transformTemplate pass by pass, or     *)
(* transformScript, then the same again on the code it produced.            *)

MaxRuns == 2
MaxValueLen == 5
MaxBodyFrags == 4
MaxExprLen == 6
MaxQuasiLen == 3
MaxExprs == 1
MaxTextLen == 3

AttrNames == {<<"t">>, <<":", "t">>, <<"v", "-", "b", "i", "n", "d", ":", "t">>}
ValueChars == {"'", Ni, ":", ">"}
BodyFrags == {<<Ni>>, <<"a">>, <<"{", "{">>, <<"}", "}">>, <<"\n">>}
ExprChars == {"'", "\"", Ni}
QuasiChars == {"a", Ni}
TextChars == {"a", Ni, " "}

POpen == <<"<", "p">>
PClose == <<"<", "/", "p", ">">>

RECURSIVE FragsUpTo(_, _)
FragsUpTo(F, n) ==
  IF n = 0 THEN {<<>>}
  ELSE LET shorter == FragsUpTo(F, n - 1)
       IN shorter \cup {f \o r : f \in F, r \in shorter}

TemplateUnit(code, name, value, body) ==
  [kind |-> "template", code |-> code, attrName |-> name, attrValue |-> value,
   body |-> body, ast |-> <<>>]

ScriptUnit(nodes) ==
  [kind |-> "script", code |-> GenerateScript(nodes), attrName |-> <<>>,
   attrValue |-> <<>>, body |-> <<>>, ast |-> nodes]

\* <p NAME="VALUE">a</p>
AttrUnits ==
  {TemplateUnit(POpen \o <<" ">> \o name \o <<"=", "\"">> \o value \o <<"\"", ">", "a">> \o PClose,
                name, value, <<"a">>) :
     name \in AttrNames, value \in StringsUpTo(ValueChars, MaxValueLen) \ {<<>>}}

\* <p>BODY</p>, the body any text, well formed or not
TextUnits ==
  {TemplateUnit(POpen \o <<">">> \o body \o PClose, <<>>, <<>>, body) :
     body \in FragsUpTo(BodyFrags, MaxBodyFrags)}

\* <p>{{EXPRESSION}}</p>
InterpUnits ==
  {TemplateUnit(POpen \o <<">", "{", "{">> \o e \o <<"}", "}">> \o PClose,
                <<>>, <<>>, <<"{", "{">> \o e \o <<"}", "}">>) :
     e \in StringsUpTo(ExprChars, MaxExprLen)}

\* the k-th dynamic expression of a literal: x, xx, xxx
OriginalExpression(k) == Identifier([j \in 1..k |-> "x"])

TemplateLiterals ==
  UNION {{TemplateLiteral([k \in 1..(n + 1) |-> TemplateElement(q[k], k = n + 1)],
                          [k \in 1..n |-> OriginalExpression(k)], FALSE) :
            q \in [1..(n + 1) -> StringsUpTo(QuasiChars, MaxQuasiLen)]} :
         n \in 0..MaxExprs}

ScriptNodes ==
  TemplateLiterals
    \cup {StringLiteral(v) : v \in StringsUpTo(TextChars, MaxTextLen)}
    \cup {CallExpression(c, StringLiteral(v)) :
            c \in {<<"$", "t">>, <<"f">>}, v \in StringsUpTo(TextChars, MaxTextLen)}
    \cup {JSXText(v) : v \in StringsUpTo(TextChars, MaxTextLen)}
    \cup {SyntaxError}

ScriptUnits == {ScriptUnit(<<nd>>) : nd \in ScriptNodes}

EngineUnits == AttrUnits \cup TextUnits \cup InterpUnits \cup ScriptUnits

Stage(code, log, ast) == [code |-> code, log |-> log, ast |-> ast]

LogSet(log) == {log[k] : k \in 1..Len(log)}

EngInit ==
  /\ commonWords \in {{}, {<<Ni>>}}
  /\ moduleName = "test"
  /\ unit \in EngineUnits
  /\ stages = <<Stage(unit.code, <<>>, unit.ast)>>
  /\ localeMap = <<>>
  /\ emitted = {}
  /\ dictFiles = <<>>
  /\ lastCall = NoCall
  /\ before = <<>>
  /\ calls = 0
  /\ pc = "engine"
  /\ tree = <<>>
  /\ stack = <<>>
  /\ cur = NoFile
  /\ outTree = <<>>
  /\ outs = <<>>
  /\ snaps = <<>>

\* one pass of transformTemplate applied to the code the previous one left
PassStep(n, r, last) ==
  /\ pc = "engine"
  /\ unit.kind = "template"
  /\ Len(stages) = n
  /\ stages' = Append(stages, Stage(r.code, r.log, <<>>))
  /\ localeMap' = AddAll(localeMap, commonWords, moduleName, r.log)
  /\ emitted' = emitted \cup LogSet(r.log)
  /\ outs' = IF last THEN Append(outs, r.code) ELSE outs
  /\ snaps' = IF last THEN Append(snaps, localeMap') ELSE snaps
  /\ UNCHANGED <<commonWords, moduleName, dictFiles, lastCall, before, calls, pc,
                 tree, stack, cur, outTree, unit>>

\* lines 131-153
AttributePassStep ==
  \E r \in {AttributePass(stages[Len(stages)].code, commonWords, moduleName)} :
    PassStep(1, r, FALSE)

\* lines 155-187
TagBodyPassStep ==
  \E r \in {TagBodyPass(stages[Len(stages)].code, commonWords, moduleName)} :
    PassStep(2, r, FALSE)

\* lines 190-202
InterpolationPassStep ==
  \E r \in {InterpolationPass(stages[Len(stages)].code, commonWords, moduleName)} :
    PassStep(3, r, FALSE)

\* lines 205-237, and the return of line 239
SecondTagBodyPassStep ==
  \E r \in {TagBodyPass(stages[Len(stages)].code, commonWords, moduleName)} :
    PassStep(4, r, TRUE)

\* transformScript returns the generated code
TransformScriptStep ==
  /\ pc = "engine"
  /\ unit.kind = "script"
  /\ Len(stages) = 1
  /\ \E r \in {transformScript(stages[1].ast, commonWords, moduleName)} :
        /\ r.ok
        /\ stages' = Append(stages, Stage(GenerateScript(r.nodes), r.log, r.nodes))
        /\ localeMap' = AddAll(localeMap, commonWords, moduleName, r.log)
        /\ emitted' = emitted \cup LogSet(r.log)
        /\ outs' = Append(outs, GenerateScript(r.nodes))
        /\ snaps' = Append(snaps, localeMap')
  /\ UNCHANGED <<commonWords, moduleName, dictFiles, lastCall, before, calls, pc,
                 tree, stack, cur, outTree, unit>>

\* transformScript throws: the parser on a syntax error, or t.templateLiteral
\* on the arrays the visitor built; what addLocale recorded before stays
TransformScriptThrows ==
  /\ pc = "engine"
  /\ unit.kind = "script"
  /\ Len(stages) = 1
  /\ \E r \in {transformScript(stages[1].ast, commonWords, moduleName)} :
        /\ ~r.ok
        /\ localeMap' = AddAll(localeMap, commonWords, moduleName, r.log)
        /\ emitted' = emitted \cup LogSet(r.log)
  /\ pc' = "threw"
  /\ UNCHANGED <<commonWords, moduleName, dictFiles, lastCall, before, calls,
                 tree, stack, cur, outTree, unit, stages, outs, snaps>>

RunComplete ==
  \/ unit.kind = "template" /\ Len(stages) = 5
  \/ unit.kind = "script" /\ Len(stages) = 2

\* the engine is run on the code the run before produced
RunAgain ==
  /\ pc = "engine"
  /\ RunComplete
  /\ Len(outs) < MaxRuns
  /\ stages' = <<Stage(outs[Len(outs)], <<>>, ReparseAll(stages[Len(stages)].ast))>>
  /\ UNCHANGED <<commonWords, moduleName, localeMap, emitted, dictFiles, lastCall,
                 before, calls, pc, tree, stack, cur, outTree, unit, outs, snaps>>

EngNext ==
  \/ AttributePassStep
  \/ TagBodyPassStep
  \/ InterpolationPassStep
  \/ SecondTagBodyPassStep
  \/ TransformScriptStep
  \/ TransformScriptThrows
  \/ RunAgain

SpecEngine == EngInit /\ [][EngNext]_vars

-----------------------------------------------------------------------------
(* The run: walkDir over the source tree, file by file, then the .then or   *)
(* the .catch of the entry point (lines 400-431).                           *)

File(name, template, script) ==
  [name |-> name, kind |-> "file", template |-> template, script |-> script,
   entries |-> <<>>]
Directory(name, entries) ==
  [name |-> name, kind |-> "dir", template |-> <<>>, script |-> <<>>,
   entries |-> entries]
\* neither a file nor a directory
Other(name) ==
  [name |-> name, kind |-> "other", template |-> <<>>, script |-> <<>>,
   entries |-> <<>>]

\* a.vue: a static attribute, a bound attribute, text and an interpolation
AVue ==
  File(<<"a", ".", "v", "u", "e">>,
       <<"<", "p", " ", "t", "=", "\"", Ni, "\"", " ", ":", "t", "=", "\"",
         "'", Hao, "'", "\"", ">", Ni, Hao, "{", "{", "'", Hao, Ni, "'",
         "}", "}", "<", "/", "p", ">">>,
       <<StringLiteral(<<Hao>>)>>)
BTs ==
  File(<<"b", ".", "t", "s">>, <<>>,
       <<TemplateLiteral(<<TemplateElement(<<Ni>>, FALSE),
                           TemplateElement(<<"a">>, TRUE)>>,
                         <<Identifier(<<"x">>)>>, FALSE),
         CallExpression(<<"f">>, StringLiteral(<<Ni, Hao>>))>>)
CTsx ==
  File(<<"c", ".", "t", "s", "x">>, <<>>, <<JSXText(<<"a", " ", Hao, Hao, " ">>)>>)
\* d.ts does not parse
DTs ==
  File(<<"d", ".", "t", "s">>, <<>>, <<StringLiteral(<<Hao, Ni, Hao>>), SyntaxError>>)
ECss ==
  File(<<"e", ".", "c", "s", "s">>, <<>>, <<>>)
\* g.vue: a bound attribute whose text is not in a string literal, no script
GVue ==
  File(<<"g", ".", "v", "u", "e">>,
       <<"<", "p", " ", ":", "t", "=", "\"", Ni, ">", "'", "a", "'", "\"",
         ">", "a", "<", "/", "p", ">">>,
       <<>>)
Sub ==
  Directory(<<"s", "u", "b">>, <<CTsx, Other(<<"o">>)>>)

Catalogue == {AVue, BTs, DTs, ECss, GVue, Sub}

\* the listings readdir can return for the source directory
Listings ==
  {l \in UNION {[1..n -> Catalogue] : n \in 0..MaxEntries} :
     \A a, b \in 1..Len(l) : a # b => l[a] # l[b]}

\* s.endsWith(suffix)
EndsWith(s, suffix) ==
  /\ Len(s) >= Len(suffix)
  /\ SubSeq(s, Len(s) - Len(suffix) + 1, Len(s)) = suffix

\* the branch of lines 405-417 an entry takes
EntryBranch(entry) ==
  IF entry.kind = "dir" THEN "walkDir"
  ELSE IF entry.kind # "file" THEN "skip"
  ELSE IF EndsWith(entry.name, <<".", "v", "u", "e">>) THEN "processVueFile"
  ELSE IF \/ EndsWith(entry.name, <<".", "t", "s">>)
          \/ EndsWith(entry.name, <<".", "t", "s", "x">>)
          \/ EndsWith(entry.name, <<".", "j", "s", "x">>) THEN "processTsFile"
  ELSE "skip"

\* lines 367-383 for a file without style blocks
VueContent(newScript, newTemplate) ==
  Trim(<<"\n", "<", "s", "c", "r", "i", "p", "t", " ", "s", "e", "t", "u",
         "p", " ", "l", "a", "n", "g", "=", "\"", "t", "s", "\"", ">",
         "\n">>
       \o newScript
       \o <<"\n", "<", "/", "s", "c", "r", "i", "p", "t", ">", "\n", "<", "t",
         "e", "m", "p", "l", "a", "t", "e", ">", "\n">>
       \o newTemplate
       \o <<"\n", "<", "/", "t", "e", "m", "p", "l", "a", "t", "e", ">", "\n",
         "\n">>)

\* what processVueFile (lines 360-365) and processTsFile (line 392) compute
\* from the content of a file: the new content, the addLocale calls made, and
\* whether transformScript returned
TransformFile(entry, cw, mName) ==
  IF EntryBranch(entry) = "processVueFile"
  THEN Bind(IF entry.template # <<>>
            THEN transformTemplate(entry.template, cw, mName)
            ELSE Result(<<>>, <<>>), LAMBDA rt :
         Bind(IF entry.script # <<>>
              THEN transformScript(entry.script, cw, mName)
              ELSE VisitResult(TRUE, <<>>, <<>>), LAMBDA rs :
           [ok |-> rs.ok,
            content |-> VueContent(GenerateScript(rs.nodes), rt.code),
            log |-> rt.log \o rs.log]))
  ELSE Bind(transformScript(entry.script, cw, mName), LAMBDA rs :
         [ok |-> rs.ok, content |-> GenerateScript(rs.nodes), log |-> rs.log])

Frame(dir, entries, listed) ==
  [dir |-> dir, entries |-> entries, i |-> 1, listed |-> listed]

Top == stack[Len(stack)]

Step(step, op, path, entry, content) ==
  [step |-> step, op |-> op, path |-> path, entry |-> entry, content |-> content]

Failed(op, path) == Step("failed", op, path, Other(<<>>), <<>>)

\* a walk that goes on after an error
SettleSwallowing(ok) == "walking"

\* an awaited call that throws rejects the promise of every walkDir awaiting it
Settle(ok) == IF ok THEN "walking" ELSE "rejected"

Init ==
  /\ commonWords \in CommonWordSets
  /\ moduleName \in ModuleNames
  /\ tree \in Listings
  /\ stack = <<Frame(<<>>, tree, FALSE)>>
  /\ pc = "walking"
  /\ cur = NoFile
  /\ outTree = <<>>
  /\ localeMap = <<>>
  /\ emitted = {}
  /\ dictFiles = <<>>
  /\ lastCall = NoCall
  /\ before = <<>>
  /\ calls = 0
  /\ unit = NoUnit
  /\ stages = <<>>
  /\ outs = <<>>
  /\ snaps = <<>>

AtEntry ==
  /\ pc = "walking"
  /\ cur = NoFile
  /\ stack # <<>>
  /\ Top.listed
  /\ Top.i <= Len(Top.entries)

Advance(stk) == [stk EXCEPT ![Len(stk)].i = @ + 1]

\* line 401
ReadDir ==
  /\ pc = "walking"
  /\ cur = NoFile
  /\ stack # <<>>
  /\ ~Top.listed
  /\ \E ok \in BOOLEAN :
       /\ pc' = Settle(ok)
       /\ stack' = IF ok THEN [stack EXCEPT ![Len(stack)].listed = TRUE] ELSE stack
       /\ cur' = IF ok THEN cur ELSE Failed("readdir", Top.dir)
  /\ UNCHANGED <<commonWords, moduleName, localeMap, emitted, dictFiles, lastCall,
                 before, calls, tree, outTree, unit, stages, outs, snaps>>

\* lines 405-406
EnterDirectory ==
  /\ AtEntry
  /\ EntryBranch(Top.entries[Top.i]) = "walkDir"
  /\ stack' = Append(stack, Frame(Append(Top.dir, Top.entries[Top.i].name),
                                  Top.entries[Top.i].entries, FALSE))
  /\ UNCHANGED <<commonWords, moduleName, localeMap, emitted, dictFiles, lastCall,
                 before, calls, pc, tree, cur, outTree, unit, stages, outs, snaps>>

\* an entry that is no directory and no file of a processed kind
SkipEntry ==
  /\ AtEntry
  /\ EntryBranch(Top.entries[Top.i]) = "skip"
  /\ stack' = Advance(stack)
  /\ UNCHANGED <<commonWords, moduleName, localeMap, emitted, dictFiles, lastCall,
                 before, calls, pc, tree, cur, outTree, unit, stages, outs, snaps>>

\* lines 357 and 391
ReadFile ==
  /\ AtEntry
  /\ EntryBranch(Top.entries[Top.i]) \in {"processVueFile", "processTsFile"}
  /\ LET path == Append(Top.dir, Top.entries[Top.i].name)
     IN \E ok \in BOOLEAN :
          /\ pc' = Settle(ok)
          /\ cur' = IF ok THEN Step("read", "readFile", path, Top.entries[Top.i], <<>>)
                    ELSE Failed("readFile", path)
  /\ UNCHANGED <<commonWords, moduleName, localeMap, emitted, dictFiles, lastCall,
                 before, calls, tree, stack, outTree, unit, stages, outs, snaps>>

\* lines 358-383 and 392-393
Transform ==
  /\ pc = "walking"
  /\ cur.step = "read"
  /\ \E r \in {TransformFile(cur.entry, commonWords, moduleName)} :
        /\ localeMap' = AddAll(localeMap, commonWords, moduleName, r.log)
        /\ emitted' = emitted \cup LogSet(r.log)
        /\ pc' = Settle(r.ok)
        /\ cur' = IF r.ok THEN Step("transformed", "transform", cur.path, cur.entry, r.content)
                  ELSE Failed("transform", cur.path)
  /\ UNCHANGED <<commonWords, moduleName, dictFiles, lastCall, before, calls, tree,
                 stack, outTree, unit, stages, outs, snaps>>

\* lines 385 and 395
MakeDir ==
  /\ pc = "walking"
  /\ cur.step = "transformed"
  /\ \E ok \in BOOLEAN :
       /\ pc' = Settle(ok)
       /\ cur' = IF ok THEN [cur EXCEPT !.step = "mkdir", !.op = "mkdir"]
                 ELSE Failed("mkdir", cur.path)
  /\ UNCHANGED <<commonWords, moduleName, localeMap, emitted, dictFiles, lastCall,
                 before, calls, tree, stack, outTree, unit, stages, outs, snaps>>

\* lines 386 and 396, and the next turn of the loop
WriteFile ==
  /\ pc = "walking"
  /\ cur.step = "mkdir"
  /\ \E ok \in BOOLEAN :
       /\ pc' = Settle(ok)
       /\ cur' = IF ok THEN NoFile ELSE Failed("writeFile", cur.path)
       /\ outTree' = IF ok THEN Append(outTree, [path |-> cur.path, content |-> cur.content])
                     ELSE outTree
       /\ stack' = IF ok THEN Advance(stack) ELSE stack
  /\ UNCHANGED <<commonWords, moduleName, localeMap, emitted, dictFiles, lastCall,
                 before, calls, tree, unit, stages, outs, snaps>>

\* the loop of one walkDir ends: its promise resolves
WalkReturn ==
  /\ pc = "walking"
  /\ cur = NoFile
  /\ stack # <<>>
  /\ Top.listed
  /\ Top.i > Len(Top.entries)
  /\ stack' = IF Len(stack) = 1 THEN <<>>
              ELSE Advance(SubSeq(stack, 1, Len(stack) - 1))
  /\ pc' = IF Len(stack) = 1 THEN "resolved" ELSE "walking"
  /\ UNCHANGED <<commonWords, moduleName, localeMap, emitted, dictFiles, lastCall,
                 before, calls, tree, cur, outTree, unit, stages, outs, snaps>>

\* line 431
CatchError ==
  /\ pc = "rejected"
  /\ pc' = "failed"
  /\ UNCHANGED <<commonWords, moduleName, localeMap, emitted, dictFiles, lastCall,
                 before, calls, tree, stack, cur, outTree, unit, stages, outs, snaps>>

Next ==
  \/ ReadDir
  \/ EnterDirectory
  \/ SkipEntry
  \/ ReadFile
  \/ Transform
  \/ MakeDir
  \/ WriteFile
  \/ WalkReturn
  \/ WriteLocaleFiles
  \/ CatchError

Spec == Init /\ [][Next]_vars

-----------------------------------------------------------------------------
(* Claims about the registry *)

Distinct(seq) == \A i, j \in 1..Len(seq) : i # j => seq[i] # seq[j]

PresentIn(lm, cw, mName, text) ==
  /\ ObjHas(lm, TargetModule(cw, mName, text))
  /\ ObjHas(lm[ObjIndex(lm, TargetModule(cw, mName, text))].value, text)

\* C3: the registry holds at most one entry per (namespace, text) pair, each
\* entry's value equals its key, and an addLocale call with a pair that is
\* already present leaves the whole registry as it was.
C3_KeyUniqueness ==
  /\ Distinct(ObjKeys(localeMap))
  /\ \A i \in 1..Len(localeMap) :
       /\ Distinct(ObjKeys(localeMap[i].value))
       /\ \A j \in 1..Len(localeMap[i].value) :
            localeMap[i].value[j].value = localeMap[i].value[j].key
  /\ (lastCall # NoCall /\ PresentIn(before, commonWords, moduleName, lastCall.text))
       => localeMap = before

C3_Witness ==
  /\ lastCall # NoCall
  /\ PresentIn(before, commonWords, moduleName, lastCall.text)
  /\ Cardinality(Pairs(localeMap)) >= 2

StrictlyIncreasing(ks) ==
  \A i \in 1..(Len(ks) - 1) : StrLess(ks[i], ks[i + 1])

\* C8: for every namespace, whatever the order its entries were inserted in,
\* writeLocaleFiles emits its keys in strictly increasing order of code units,
\* exactly the keys of the registry, each with a value equal to the key.
C8_SortedDictionary ==
  pc = "written" =>
    /\ Len(dictFiles) = Len(localeMap)
    /\ \A i \in 1..Len(dictFiles) :
         /\ dictFiles[i].root = localeMap[i].key
         /\ StrictlyIncreasing(ObjKeys(dictFiles[i].table))
         /\ {dictFiles[i].table[j].key : j \in 1..Len(dictFiles[i].table)}
              = {localeMap[i].value[j].key : j \in 1..Len(localeMap[i].value)}
         /\ \A j \in 1..Len(dictFiles[i].table) :
              dictFiles[i].table[j].value = dictFiles[i].table[j].key

C8_Witness ==
  /\ pc = "written"
  /\ \E i \in 1..Len(localeMap) :
       /\ Len(localeMap[i].value) >= 3
       /\ ~StrictlyIncreasing(ObjKeys(localeMap[i].value))
       /\ ObjKeys(dictFiles[i].table) # ObjKeys(localeMap[i].value)

-----------------------------------------------------------------------------
(* Claims about the rewriting engine *)

\* C1: a second run of the engine on the output of a first run returns that
\* output unchanged, and records no (namespace, text) pair that the first run
\* had not recorded.
C1_Idempotence ==
  Len(outs) >= 2 =>
    /\ outs[2] = outs[1]
    /\ Pairs(snaps[2]) \subseteq Pairs(snaps[1])

\* the text after the namespace of a key
KeyText(key) ==
  LET dot == FindFrom(key, 1, LAMBDA c : c = ".")
  IN IF dot = 0 THEN key ELSE SubSeq(key, dot + 1, Len(key))

IsTCall(node) ==
  /\ node.type = "CallExpression"
  /\ node.callee = <<"$", "t">>

\* a literal read left to right, each dynamic expression as ${name}; with
\* unwrap, a translation call stands for the text of its key
FlattenLiteral(lit, unwrap) ==
  Concat([k \in 1..Len(lit.quasis) |->
            lit.quasis[k].raw
              \o (IF k > Len(lit.expressions) THEN <<>>
                  ELSE IF unwrap /\ IsTCall(lit.expressions[k])
                       THEN KeyText(lit.expressions[k].arg.value)
                       ELSE <<"$", "{">> \o lit.expressions[k].name \o <<"}">>)])

IsTargetLiteralUnit ==
  /\ unit.kind = "script"
  /\ unit.ast[1].type = "TemplateLiteral"
  /\ \E k \in 1..Len(unit.ast[1].quasis) : HasZh(unit.ast[1].quasis[k].raw)

FirstScriptRunDone ==
  \/ pc = "threw"
  \/ Len(outs) = 1 /\ Len(stages) = 2

\* C4: a template literal whose static segments contain target-script runs is
\* rewritten to a literal with exactly one more static segment than
\* expressions, in which the original dynamic expressions keep their order and
\* their place in the surrounding text.
C4_SplitFidelity ==
  (IsTargetLiteralUnit /\ FirstScriptRunDone) =>
    /\ pc # "threw"
    /\ LET lit == stages[2].ast[1]
       IN /\ lit.type = "TemplateLiteral"
          /\ Len(lit.quasis) = Len(lit.expressions) + 1
          /\ FlattenLiteral(lit, TRUE) = FlattenLiteral(unit.ast[1], FALSE)

IsDynamicName(name) ==
  StartsWith(name, <<":">>) \/ StartsWith(name, <<"v", "-", "b", "i", "n", "d">>)

\* C5: a dynamic attribute whose value holds target-script text and does not
\* parse as an expression is left as it was in the output of
\* transformTemplate, and the registry is not changed by it.
C5_GracefulDegradation ==
  ( /\ unit.kind = "template"
    /\ IsDynamicName(unit.attrName)
    /\ HasZh(unit.attrValue)
    /\ ~Parses(Tokenize(unit.attrValue))
    /\ Len(outs) >= 1 ) =>
      /\ outs[1] = unit.code
      /\ snaps[1] = <<>>

\* a tag body cut at its interpolations: the leftmost {{ up to the first }}
\* after it is an interpolation, the text around it is plain
RECURSIVE RefSegments(_)
RefSegments(body) ==
  LET opens == {k \in 1..Len(body) : StartsWithAt(body, <<"{", "{">>, k)}
      open == Min(opens)
      closes == {j \in (open + 2)..Len(body) : StartsWithAt(body, <<"}", "}">>, j)}
      close == Min(closes)
      plain(t) == IF t = <<>> THEN <<>> ELSE <<[interp |-> FALSE, text |-> t]>>
  IN IF opens = {} THEN plain(body)
     ELSE IF closes = {} THEN plain(body)
     ELSE plain(SubSeq(body, 1, open - 1))
            \o <<[interp |-> TRUE, text |-> SubSeq(body, open, close + 1)]>>
            \o RefSegments(SubSeq(body, close + 2, Len(body)))

\* what the claim asks of one plain segment
RefPlain(text, cw, mName) ==
  LET parts == SplitRuns(text, IsZh)
  IN Result(Concat([k \in 1..Len(parts) |->
                      IF HasZh(parts[k])
                      THEN <<"{", "{", " ", "$", "t", "(", "'">>
                             \o ModuleChars[TargetModule(cw, mName, parts[k])]
                             \o <<".">> \o parts[k] \o <<"'", ")", " ", "}", "}">>
                      ELSE parts[k]]),
            Concat([k \in 1..Len(parts) |->
                      IF HasZh(parts[k])
                      THEN <<parts[k]>>
                      ELSE <<>>]))

RefBody(body, cw, mName) ==
  LET segs == RefSegments(body)
      each == [k \in 1..Len(segs) |->
                 IF segs[k].interp THEN Result(segs[k].text, <<>>)
                 ELSE RefPlain(segs[k].text, cw, mName)]
  IN Result(Concat([k \in 1..Len(segs) |-> each[k].code]),
            Concat([k \in 1..Len(segs) |-> each[k].log]))

IsTargetBodyUnit ==
  /\ unit.kind = "template"
  /\ unit.attrName = <<>>
  /\ HasZh(unit.body)
  /\ ~IsBlank(unit.body)
  /\ ~Includes(unit.body, <<"<", "!", "-", "-">>)
  /\ ~Includes(unit.body, <<"$", "t", "(">>)

\* C9: in a tag body that is not a comment, not blank, holds target-script
\* characters and no translation call, the tag-body pass leaves every
\* interpolation as it is and replaces every maximal target-script run of the
\* plain text by its own interpolation of a translation call, recording each
\* run on its own; every other character stays in place.
C9_TagBodySplitting ==
  (IsTargetBodyUnit /\ Len(outs) = 0 /\ Len(stages) >= 3) =>
    LET want == RefBody(unit.body, commonWords, moduleName)
    IN /\ stages[3].code = POpen \o <<">">> \o want.code \o PClose
       /\ [k \in 1..Len(stages[3].log) |-> stages[3].log[k].text] = want.log

\* C10: every text recorded in the registry, and the text of every emitted
\* translation key, holds at least one target-script character.
C10_RecordedTextIsTarget ==
  /\ \A e \in emitted : HasZh(e.text) /\ HasZh(KeyText(e.key))
  /\ \A pair \in Pairs(localeMap) : HasZh(pair[2])

-----------------------------------------------------------------------------
(* Claims about the run *)

\* C2: a text of the override set is recorded only under the namespace
\* common and its emitted key is common.<text>; any other text is recorded
\* only under the namespace of the file; no text is filed under two
\* namespaces in one run.
C2_NamespacePrecedence ==
  /\ \A e \in emitted :
       e.key = (IF e.text \in commonWords THEN <<"c", "o", "m", "m", "o", "n">>
                ELSE ModuleChars[moduleName]) \o <<".">> \o e.text
  /\ \A p \in Pairs(localeMap) :
       p[1] = (IF p[2] \in commonWords THEN "common" ELSE moduleName)
  /\ \A p, q \in Pairs(localeMap) : p[2] = q[2] => p[1] = q[1]

C2_Witness ==
  /\ pc = "resolved"
  /\ \E e \in emitted : e.text \in commonWords
  /\ \E e \in emitted : e.text \notin commonWords
  /\ \E p, q \in Pairs(localeMap) : p[1] = "common" /\ q[1] = moduleName

\* the files of a listing that walkDir hands to processVueFile or
\* processTsFile, at any depth
RECURSIVE ProcessedFiles(_, _)
ProcessedFiles(dir, entries) ==
  UNION {IF EntryBranch(entries[k]) = "walkDir"
         THEN ProcessedFiles(Append(dir, entries[k].name), entries[k].entries)
         ELSE IF EntryBranch(entries[k]) = "skip" THEN {}
         ELSE {[path |-> Append(dir, entries[k].name), entry |-> entries[k]]} :
         k \in 1..Len(entries)}

\* the (namespace, text) pairs one file yields when processed on its own
PairsOfFile(entry) ==
  {<<IF e.text \in commonWords THEN "common" ELSE moduleName, e.text>> :
     e \in LogSet(TransformFile(entry, commonWords, moduleName).log)}

\* C6: when every file of the tree is processed without error, the registry
\* holds exactly the entries of the files, whatever the order they were
\* visited in.
C6_OrderIndependence ==
  pc \in {"resolved", "written"} =>
    Pairs(localeMap) = UNION {PairsOfFile(f.entry) : f \in ProcessedFiles(<<>>, tree)}

C6_Witness ==
  /\ pc = "resolved"
  /\ tree = <<Sub, BTs, AVue>>
  /\ Cardinality(Pairs(localeMap)) >= 4

\* C7: writeLocaleFiles runs only after every file of the walk has been
\* transformed and written; once a read, a parse or a write has failed, the
\* walk is rejected, no file is processed any more and no dictionary file is
\* written.
C7_SerializeAfterCleanWalk ==
  /\ [](pc = "written" =>
          /\ cur = NoFile
          /\ stack = <<>>
          /\ {o.path : o \in LogSet(outTree)}
               = {f.path : f \in ProcessedFiles(<<>>, tree)}
          /\ Len(outTree) = Cardinality(ProcessedFiles(<<>>, tree)))
  /\ [](dictFiles # <<>> => pc = "written")
  /\ [](cur.step = "failed" => pc \in {"rejected", "failed"} /\ dictFiles = <<>>)
  /\ [][cur.step = "failed" =>
          /\ cur' = cur
          /\ outTree' = outTree
          /\ localeMap' = localeMap
          /\ dictFiles' = dictFiles]_vars

C7_Witness ==
  /\ pc = "failed"
  /\ cur.op = "transform"
  /\ Len(outTree) >= 1
  /\ localeMap # <<>>
  /\ dictFiles = <<>>

====
